---- MODULE Spec2Model ----
(***************************************************************************)
(* State-machine model of the EasyDeals storefront component               *)
(* force-app/main/default/lwc/searchResults/searchResults.js               *)
(* (class SearchResults): the search/pagination coordinator, the cart      *)
(* state tracker and the comparison modal.  Every Apex call is a promise:  *)
(* the handler that issues it runs to completion, and the .then / .catch   *)
(* callback of each issued call runs later, once, in any order.            *)
(***************************************************************************)
EXTENDS Integers, Sequences, FiniteSets, TLC

VARIABLES
    _pageNumber,          \* this._pageNumber
    _refinements,         \* this._refinements
    _term,                \* this._term
    _recordId,            \* this._recordId
    _landingRecordId,     \* this._landingRecordId
    _displayData,         \* this._displayData
    _isLoading,           \* this._isLoading
    error,                \* this.error
    _effectiveAccountId,  \* this._effectiveAccountId
    _cartSummary,         \* this._cartSummary
    _comparatorData,      \* this._comparatorData
    isComparingModalOpen, \* this.isComparingModalOpen
    idsToCompare,         \* this.idsToCompare
    mounted,              \* connectedCallback() has run
    searchIssued,         \* number of productSearch calls issued so far
    searchRequest,        \* arguments of the productSearch call issued last
    searchPending,        \* indices of productSearch calls not yet settled
    cartIssued,           \* number of getCartSummary calls issued so far
    cartRequest,          \* arguments of the getCartSummary call issued last
    cartPending,          \* indices of getCartSummary calls not yet settled
    cartLatestSuccess,    \* history: the latest issued getCartSummary call that succeeded
    addIssued,            \* number of addToCart calls issued so far
    addRequest,           \* arguments of the addToCart call issued last
    addPending,           \* addToCart calls not yet settled, each with its evt
    productsIssued,       \* number of getProducts calls issued so far
    productsRequest,      \* arguments of the getProducts call issued last
    productsPending,      \* indices of getProducts calls not yet settled
    cleanCalls,           \* number of cleanCache calls issued
    cleanPending,         \* indices of cleanCache calls not yet settled
    closedAt,             \* history: productsIssued when closeComparingModal() ran last
    events,               \* events the handler that ran last handed to dispatchEvent
    lastRecordIdSet,      \* history: the value last assigned through recordId
    last,                 \* history: the handler or callback that ran last
    shownHeaderText,      \* the header text as the template rendered it last
    list_effectiveAccountId, \* CustomProductList: this.effectiveAccountId
    list_products,        \* CustomProductList: this.products
    listMounted,          \* CustomProductList: connectedCallback() has run
    listRequest,          \* CustomProductList: arguments of its getProducts call
    listPending,          \* CustomProductList: its getProducts call has not settled
    rawProduct,           \* a product of the result page, as the gateway sent it
    card_displayData,     \* SearchCard: this.displayData
    cardView,             \* SearchCard: what its getters gave the template last
    cache,                \* the product ids staged in the Scratch Cache
    putIssued,            \* number of putToCache calls issued so far
    putRequest,           \* arguments of the putToCache call issued last
    putPending            \* putToCache calls not yet settled, each with its id

searchVars == <<_pageNumber, _refinements, _term, _recordId, _landingRecordId,
                _displayData, _isLoading, error, searchIssued, searchRequest,
                searchPending,
                lastRecordIdSet>>
cartVars == <<_cartSummary, mounted, cartIssued, cartRequest, cartPending,
             cartLatestSuccess>>
addVars == <<addIssued, addRequest, addPending>>
compareVars == <<_comparatorData, isComparingModalOpen, idsToCompare,
                 productsIssued, productsRequest, productsPending,
                 cleanCalls, cleanPending, closedAt>>
listVars == <<list_effectiveAccountId, list_products, listMounted, listRequest,
              listPending>>
cardVars == <<rawProduct, card_displayData, cardView>>
cacheVars == <<cache, putIssued, putRequest, putPending>>
viewVars == <<listVars, cardVars, cacheVars, shownHeaderText>>
vars == <<searchVars, cartVars, addVars, compareVars, _effectiveAccountId,
          events, last, viewVars>>

(***************************************************************************)
(* Bounds of the model                                                     *)
(***************************************************************************)
MaxSearchCalls == 3
MaxCartCalls == 2
MaxAddCalls == 2
MaxProductsCalls == 2
MaxCleanCalls == 2

(***************************************************************************)
(* Values                                                                  *)
(***************************************************************************)
\* the JavaScript value undefined, for a field that holds strings
Undefined == "undefined"
\* an object-valued field that is still undefined
NoObject == [undefined |-> TRUE]

ZeroAccountId == "000000000000000"
AccountIds == {Undefined, "", ZeroAccountId, "001xyz"}
Terms == {"", "shoes"}
CategoryIds == {"cat1", "cat2"}
RefinementLists == {<<>>, <<"color:red">>}
ProductIds == {"p1", "p2"}
CartStatuses == {"Active", "Processing", "Checkout"}
Totals == {1, 5}
PageSize == 2

\* the name under which product id is shown on its card
ProductName(id) == IF id = "p1" THEN "Lamp" ELSE "Chair"

\* JavaScript truthiness of a string-or-undefined value
Truthy(v) == v # Undefined /\ v # ""

(***************************************************************************)
(* Pure helpers                                                            *)
(***************************************************************************)
Null == "null"

\* a resolvedEffectiveAccountId() that lets the all-zero placeholder through
resolvedEffectiveAccountId_placeholder(accountId) ==
    LET effectiveAcocuntId == IF Truthy(accountId) THEN accountId ELSE ""
    IN  IF effectiveAcocuntId # ""
        THEN effectiveAcocuntId
        ELSE Null

\* get resolvedEffectiveAccountId(), as a function of this._effectiveAccountId
resolvedEffectiveAccountId(accountId) ==
    LET effectiveAcocuntId == IF Truthy(accountId) THEN accountId ELSE ""
    IN  IF effectiveAcocuntId # "" /\ effectiveAcocuntId # ZeroAccountId
        THEN effectiveAcocuntId
        ELSE Null

\* a searchQuery that sends the 1-based page number as it is
searchQuery_onebased(term, recordId, refinements, pageNumber) ==
    [searchTerm |-> term,
     categoryId |-> recordId,
     refinements |-> refinements,
     page |-> pageNumber,
     includePrices |-> TRUE,
     includeQuantityRule |-> TRUE]

\* the searchQuery object that triggerProductSearch hands to JSON.stringify;
\* a key whose value is Undefined is a key JSON.stringify leaves out
searchQuery(term, recordId, refinements, pageNumber) ==
    [searchTerm |-> term,
     categoryId |-> recordId,
     refinements |-> refinements,
     page |-> pageNumber - 1,
     includePrices |-> TRUE,
     includeQuantityRule |-> TRUE]

\* what the gateway can answer to a search
ResultPages == [total : Totals, pageSize : {PageSize}]

\* transformData(data, cardContentMapping) of ./dataNormalizer: the
\* DisplayPage of a ResultPage keeps its total and its page size
transformData(data) == [total |-> data.total, pageSize |-> data.pageSize]

\* get displayData()
displayData == IF _displayData = NoObject THEN [empty |-> TRUE] ELSE _displayData

\* get isLoading()
isLoading == _isLoading

\* Math.min
Min(a, b) == IF a < b THEN a ELSE b

\* startIndex of headerText, for a page of pageSize items
startIndex(pageSize) == (_pageNumber - 1) * pageSize + 1

\* an endIndex that is the end of a full page, whatever the total
endIndex_fullpage(pageSize, totalItemCount) ==
    startIndex(pageSize) + pageSize - 1

\* endIndex of headerText
endIndex(pageSize, totalItemCount) ==
    Min(startIndex(pageSize) + pageSize - 1, totalItemCount)

\* a headerText whose range ends with the full page, past the total
headerText_fullpage ==
    IF _displayData = NoObject
    THEN ""
    ELSE LET totalItemCount == _displayData.total
             pageSize == _displayData.pageSize
         IN  IF totalItemCount > 1
             THEN ToString(startIndex(pageSize)) \o " - "
                  \o ToString(startIndex(pageSize) + pageSize - 1) \o " of "
                  \o ToString(totalItemCount) \o " Items"
             ELSE IF totalItemCount = 1 THEN "1 Result" ELSE ""

\* get headerText(); without data the total is undefined and no branch is taken
headerText ==
    IF _displayData = NoObject
    THEN ""
    ELSE LET totalItemCount == _displayData.total
             pageSize == _displayData.pageSize
         IN  IF totalItemCount > 1
             THEN ToString(startIndex(pageSize)) \o " - "
                  \o ToString(endIndex(pageSize, totalItemCount)) \o " of "
                  \o ToString(totalItemCount) \o " Items"
             ELSE IF totalItemCount = 1 THEN "1 Result" ELSE ""

\* an isCartLocked() that knows one locked status only
isCartLocked_processing ==
    LET cartStatus == IF _cartSummary = NoObject THEN Undefined
                      ELSE _cartSummary.status
    IN  cartStatus = "Processing"

\* get isCartLocked()
isCartLocked ==
    LET cartStatus == IF _cartSummary = NoObject THEN Undefined
                      ELSE _cartSummary.status
    IN  cartStatus = "Processing" \/ cartStatus = "Checkout"

\* get config(); resultsLayout and showProductImage are never assigned here
config ==
    [layoutConfig |->
        [resultsLayout |-> Undefined,
         cardConfig |-> [showImage |-> Undefined,
                         resultsLayout |-> Undefined,
                         actionDisabled |-> isCartLocked]]]

\* SearchCard: get actionDisabled(), for this.config = cardConfig
actionDisabled(cardConfig) ==
    IF cardConfig = NoObject THEN FALSE ELSE cardConfig.actionDisabled = TRUE

\* an argument of an Apex call as the gateway receives it: undefined
\* arrives as null
ApexArgument(v) == IF v = Undefined THEN Null ELSE v

(***************************************************************************)
(* Initial state: the field initialisers of the class                      *)
(***************************************************************************)
\* the field initialisers of SearchResults, but for the page and the data
SearchResultsInit ==
    /\ _refinements = <<>>
    /\ _term = Undefined
    /\ _recordId = Undefined
    /\ _landingRecordId = Undefined
    /\ _isLoading = FALSE
    /\ error = Undefined
    /\ _effectiveAccountId = Undefined
    /\ _cartSummary = NoObject
    /\ _comparatorData = NoObject
    /\ isComparingModalOpen = FALSE
    /\ idsToCompare = Undefined
    /\ mounted = FALSE
    /\ searchIssued = 0
    /\ searchRequest = NoObject
    /\ searchPending = {}
    /\ cartIssued = 0
    /\ cartRequest = NoObject
    /\ cartPending = {}
    /\ cartLatestSuccess = [call |-> 0, result |-> NoObject]
    /\ addIssued = 0
    /\ addRequest = NoObject
    /\ addPending = {}
    /\ productsIssued = 0
    /\ productsRequest = NoObject
    /\ productsPending = {}
    /\ cleanCalls = 0
    /\ cleanPending = {}
    /\ closedAt = 0
    /\ events = <<>>
    /\ lastRecordIdSet = Undefined
    /\ last = [op |-> "constructor"]

\* the field initialisers of CustomProductList
CustomProductListInit ==
    /\ list_effectiveAccountId = Undefined
    /\ list_products = <<>>
    /\ listMounted = FALSE
    /\ listRequest = NoObject
    /\ listPending = FALSE

\* an empty Scratch Cache and no putToCache call
ScratchCacheInit ==
    /\ cache = {}
    /\ putIssued = 0
    /\ putRequest = NoObject
    /\ putPending = {}

\* no card is shown
NoCardInit ==
    /\ rawProduct = NoObject
    /\ card_displayData = NoObject
    /\ cardView = NoObject

Init ==
    /\ SearchResultsInit
    /\ _pageNumber = 1
    /\ _displayData = NoObject
    /\ shownHeaderText = Undefined
    /\ CustomProductListInit
    /\ ScratchCacheInit
    /\ NoCardInit

(***************************************************************************)
(* Search / pagination coordinator                                         *)
(***************************************************************************)
\* triggerProductSearch(), run with the query fields as the calling handler
\* has just left them
triggerProductSearch(term, recordId, refinements, pageNumber) ==
    /\ searchIssued < MaxSearchCalls
    /\ searchIssued' = searchIssued + 1
    /\ searchRequest' =
          [searchQuery |-> searchQuery(term, recordId, refinements, pageNumber),
           effectiveAccountId |-> resolvedEffectiveAccountId(_effectiveAccountId)]
    /\ searchPending' = searchPending \cup {searchIssued + 1}
    /\ _isLoading' = TRUE

\* set recordId(value)
setRecordId(value) ==
    /\ _recordId' = value
    /\ _landingRecordId' = value
    /\ lastRecordIdSet' = value
    /\ triggerProductSearch(_term, value, _refinements, _pageNumber)
    /\ last' = [op |-> "recordId"]
    /\ events' = <<>>
    /\ UNCHANGED viewVars
    /\ UNCHANGED <<_pageNumber, _refinements, _term, _displayData, error>>
    /\ UNCHANGED <<cartVars, addVars, compareVars, _effectiveAccountId>>

\* set term(value) without the guard on value: it searches for every value
setTerm_always(value) ==
    /\ _term' = value
    /\ triggerProductSearch(value, _recordId, _refinements, _pageNumber)
    /\ last' = [op |-> "term"]
    /\ events' = <<>>
    /\ UNCHANGED viewVars
    /\ UNCHANGED <<_pageNumber, _refinements, _recordId, _landingRecordId,
                   _displayData, error, lastRecordIdSet>>
    /\ UNCHANGED <<cartVars, addVars, compareVars, _effectiveAccountId>>

\* set term(value)
setTerm(value) ==
    /\ _term' = value
    /\ IF Truthy(value)
       THEN triggerProductSearch(value, _recordId, _refinements, _pageNumber)
       ELSE UNCHANGED <<searchIssued, searchRequest, searchPending, _isLoading>>
    /\ last' = [op |-> "term"]
    /\ events' = <<>>
    /\ UNCHANGED viewVars
    /\ UNCHANGED <<_pageNumber, _refinements, _recordId, _landingRecordId,
                   _displayData, error, lastRecordIdSet>>
    /\ UNCHANGED <<cartVars, addVars, compareVars, _effectiveAccountId>>

\* handleClearAll()
handleClearAll ==
    /\ _refinements' = <<>>
    /\ _recordId' = _landingRecordId
    /\ _pageNumber' = 1
    /\ triggerProductSearch(_term, _landingRecordId, <<>>, 1)
    /\ last' = [op |-> "handleClearAll"]
    /\ events' = <<>>
    /\ UNCHANGED viewVars
    /\ UNCHANGED <<_term, _landingRecordId, _displayData, error, lastRecordIdSet>>
    /\ UNCHANGED <<cartVars, addVars, compareVars, _effectiveAccountId>>

\* handlePreviousPage(evt)
handlePreviousPage ==
    /\ _pageNumber' = _pageNumber - 1
    /\ triggerProductSearch(_term, _recordId, _refinements, _pageNumber - 1)
    /\ last' = [op |-> "handlePreviousPage"]
    /\ events' = <<>>
    /\ UNCHANGED viewVars
    /\ UNCHANGED <<_refinements, _term, _recordId, _landingRecordId,
                   _displayData, error, lastRecordIdSet>>
    /\ UNCHANGED <<cartVars, addVars, compareVars, _effectiveAccountId>>

\* handleNextPage(evt)
handleNextPage ==
    /\ _pageNumber' = _pageNumber + 1
    /\ triggerProductSearch(_term, _recordId, _refinements, _pageNumber + 1)
    /\ last' = [op |-> "handleNextPage"]
    /\ events' = <<>>
    /\ UNCHANGED viewVars
    /\ UNCHANGED <<_refinements, _term, _recordId, _landingRecordId,
                   _displayData, error, lastRecordIdSet>>
    /\ UNCHANGED <<cartVars, addVars, compareVars, _effectiveAccountId>>

\* handleFacetValueUpdate(evt) that resets the page to the 0-based first page
handleFacetValueUpdate_zero(refinements) ==
    /\ _refinements' = refinements
    /\ _pageNumber' = 0
    /\ triggerProductSearch(_term, _recordId, refinements, 0)
    /\ last' = [op |-> "handleFacetValueUpdate"]
    /\ events' = <<>>
    /\ UNCHANGED viewVars
    /\ UNCHANGED <<_term, _recordId, _landingRecordId, _displayData, error,
                   lastRecordIdSet>>
    /\ UNCHANGED <<cartVars, addVars, compareVars, _effectiveAccountId>>

\* handleFacetValueUpdate(evt) that searches on the page it is on
handleFacetValueUpdate_keeppage(refinements) ==
    /\ _refinements' = refinements
    /\ triggerProductSearch(_term, _recordId, refinements, _pageNumber)
    /\ last' = [op |-> "handleFacetValueUpdate"]
    /\ events' = <<>>
    /\ UNCHANGED viewVars
    /\ UNCHANGED <<_pageNumber, _term, _recordId, _landingRecordId, _displayData,
                   error, lastRecordIdSet>>
    /\ UNCHANGED <<cartVars, addVars, compareVars, _effectiveAccountId>>

\* handleFacetValueUpdate(evt), evt.detail.refinements = refinements
handleFacetValueUpdate(refinements) ==
    /\ _refinements' = refinements
    /\ _pageNumber' = 1
    /\ triggerProductSearch(_term, _recordId, refinements, 1)
    /\ last' = [op |-> "handleFacetValueUpdate"]
    /\ events' = <<>>
    /\ UNCHANGED viewVars
    /\ UNCHANGED <<_term, _recordId, _landingRecordId, _displayData, error,
                   lastRecordIdSet>>
    /\ UNCHANGED <<cartVars, addVars, compareVars, _effectiveAccountId>>

\* handleCategoryUpdate(evt) that also moves the landing category
handleCategoryUpdate_landing(categoryId) ==
    /\ _recordId' = categoryId
    /\ _landingRecordId' = categoryId
    /\ _pageNumber' = 1
    /\ triggerProductSearch(_term, categoryId, _refinements, 1)
    /\ last' = [op |-> "handleCategoryUpdate"]
    /\ events' = <<>>
    /\ UNCHANGED viewVars
    /\ UNCHANGED <<_refinements, _term, _displayData, error, lastRecordIdSet>>
    /\ UNCHANGED <<cartVars, addVars, compareVars, _effectiveAccountId>>

\* handleCategoryUpdate(evt), evt.detail.categoryId = categoryId
handleCategoryUpdate(categoryId) ==
    /\ _recordId' = categoryId
    /\ _pageNumber' = 1
    /\ triggerProductSearch(_term, categoryId, _refinements, 1)
    /\ last' = [op |-> "handleCategoryUpdate"]
    /\ events' = <<>>
    /\ UNCHANGED viewVars
    /\ UNCHANGED <<_refinements, _term, _landingRecordId, _displayData, error,
                   lastRecordIdSet>>
    /\ UNCHANGED <<cartVars, addVars, compareVars, _effectiveAccountId>>

\* a .then callback of productSearch that leaves the loading flag set
productSearchThen_loading(call, result) ==
    /\ call \in searchPending
    /\ searchPending' = searchPending \ {call}
    /\ _displayData' = transformData(result)
    /\ last' = [op |-> "productSearchThen", call |-> call]
    /\ events' = <<>>
    /\ UNCHANGED viewVars
    /\ UNCHANGED <<_pageNumber, _refinements, _term, _recordId, _landingRecordId,
                   _isLoading, error, searchIssued, searchRequest, lastRecordIdSet>>
    /\ UNCHANGED <<cartVars, addVars, compareVars, _effectiveAccountId>>

\* the .then callback of the productSearch call number call
productSearchThen(call, result) ==
    /\ call \in searchPending
    /\ searchPending' = searchPending \ {call}
    /\ _displayData' = transformData(result)
    /\ _isLoading' = FALSE
    /\ last' = [op |-> "productSearchThen", call |-> call]
    /\ events' = <<>>
    /\ UNCHANGED viewVars
    /\ UNCHANGED <<_pageNumber, _refinements, _term, _recordId, _landingRecordId,
                   error, searchIssued, searchRequest, lastRecordIdSet>>
    /\ UNCHANGED <<cartVars, addVars, compareVars, _effectiveAccountId>>

\* a .catch callback of productSearch that also drops the displayed page
productSearchCatch_cleardata(call) ==
    /\ call \in searchPending
    /\ searchPending' = searchPending \ {call}
    /\ error' = "error"
    /\ _isLoading' = FALSE
    /\ _displayData' = NoObject
    /\ last' = [op |-> "productSearchCatch", call |-> call]
    /\ events' = <<>>
    /\ UNCHANGED viewVars
    /\ UNCHANGED <<_pageNumber, _refinements, _term, _recordId, _landingRecordId,
                   searchIssued, searchRequest, lastRecordIdSet>>
    /\ UNCHANGED <<cartVars, addVars, compareVars, _effectiveAccountId>>

\* the .catch callback of the productSearch call number call
productSearchCatch(call) ==
    /\ call \in searchPending
    /\ searchPending' = searchPending \ {call}
    /\ error' = "error"
    /\ _isLoading' = FALSE
    /\ last' = [op |-> "productSearchCatch", call |-> call]
    /\ events' = <<>>
    /\ UNCHANGED viewVars
    /\ UNCHANGED <<_pageNumber, _refinements, _term, _recordId, _landingRecordId,
                   _displayData, searchIssued, searchRequest, lastRecordIdSet>>
    /\ UNCHANGED <<cartVars, addVars, compareVars, _effectiveAccountId>>

(***************************************************************************)
(* Cart state tracker                                                      *)
(***************************************************************************)
\* what the gateway can answer to getCartSummary
CartSummaries == [status : CartStatuses]

\* updateCartInformation(), run with this._effectiveAccountId = accountId
updateCartInformation(accountId) ==
    /\ cartIssued < MaxCartCalls
    /\ cartIssued' = cartIssued + 1
    /\ cartRequest' = [effectiveAccountId |-> resolvedEffectiveAccountId(accountId)]
    /\ cartPending' = cartPending \cup {cartIssued + 1}

\* connectedCallback() that forgets to fetch the cart summary
connectedCallback_nofetch ==
    /\ ~mounted
    /\ mounted' = TRUE
    /\ last' = [op |-> "connectedCallback"]
    /\ events' = <<>>
    /\ UNCHANGED viewVars
    /\ UNCHANGED <<_cartSummary, cartLatestSuccess, cartIssued, cartRequest, cartPending,
                   _effectiveAccountId>>
    /\ UNCHANGED <<searchVars, addVars, compareVars>>

\* connectedCallback(): the component is inserted into the DOM
connectedCallback ==
    /\ ~mounted
    /\ mounted' = TRUE
    /\ updateCartInformation(_effectiveAccountId)
    /\ last' = [op |-> "connectedCallback"]
    /\ events' = <<>>
    /\ UNCHANGED viewVars
    /\ UNCHANGED <<_cartSummary, cartLatestSuccess, _effectiveAccountId>>
    /\ UNCHANGED <<searchVars, addVars, compareVars>>

\* set effectiveAccountId(newId)
setEffectiveAccountId(newId) ==
    /\ _effectiveAccountId' = newId
    /\ updateCartInformation(newId)
    /\ last' = [op |-> "effectiveAccountId"]
    /\ events' = <<>>
    /\ UNCHANGED viewVars
    /\ UNCHANGED <<_cartSummary, cartLatestSuccess, mounted>>
    /\ UNCHANGED <<searchVars, addVars, compareVars>>

\* the .then callback of the getCartSummary call number call
getCartSummaryThen(call, result) ==
    /\ call \in cartPending
    /\ cartPending' = cartPending \ {call}
    /\ _cartSummary' = result
    /\ last' = [op |-> "getCartSummaryThen", call |-> call, result |-> result]
    /\ cartLatestSuccess' = IF call > cartLatestSuccess.call
                            THEN [call |-> call, result |-> result]
                            ELSE cartLatestSuccess
    /\ events' = <<>>
    /\ UNCHANGED viewVars
    /\ UNCHANGED <<mounted, cartIssued, cartRequest, _effectiveAccountId>>
    /\ UNCHANGED <<searchVars, addVars, compareVars>>

\* a .catch callback of getCartSummary that drops the stored summary
getCartSummaryCatch_reset(call) ==
    /\ call \in cartPending
    /\ cartPending' = cartPending \ {call}
    /\ _cartSummary' = NoObject
    /\ last' = [op |-> "getCartSummaryCatch", call |-> call]
    /\ UNCHANGED cartLatestSuccess
    /\ events' = <<>>
    /\ UNCHANGED viewVars
    /\ UNCHANGED <<mounted, cartIssued, cartRequest, _effectiveAccountId>>
    /\ UNCHANGED <<searchVars, addVars, compareVars>>

\* the .catch callback of the getCartSummary call number call
getCartSummaryCatch(call) ==
    /\ call \in cartPending
    /\ cartPending' = cartPending \ {call}
    /\ last' = [op |-> "getCartSummaryCatch", call |-> call]
    /\ events' = <<>>
    /\ UNCHANGED viewVars
    /\ UNCHANGED <<_cartSummary, cartLatestSuccess, mounted, cartIssued, cartRequest, _effectiveAccountId>>
    /\ UNCHANGED <<searchVars, addVars, compareVars>>

\* the events the component dispatches
CartChangedEvent == [type |-> "cartchanged"]
SuccessToast == [type |-> "toast", variant |-> "success"]
ErrorToast(productName) ==
    [type |-> "toast", variant |-> "error", messageData |-> <<productName>>]

\* handleAction(evt), evt.detail = {productId, productName}; the callbacks
\* of the call keep evt in their closure
handleAction(productId, productName) ==
    /\ addIssued < MaxAddCalls
    /\ addIssued' = addIssued + 1
    /\ addRequest' =
          [productId |-> productId,
           quantity |-> "1",
           effectiveAccountId |-> resolvedEffectiveAccountId(_effectiveAccountId)]
    /\ addPending' = addPending \cup
          {[call |-> addIssued + 1,
            evt |-> [productId |-> productId, productName |-> productName]]}
    /\ events' = <<>>
    /\ UNCHANGED viewVars
    /\ last' = [op |-> "handleAction"]
    /\ UNCHANGED _effectiveAccountId
    /\ UNCHANGED <<searchVars, cartVars, compareVars>>

\* the .then callback of the addToCart call p
addToCartThen(p) ==
    /\ p \in addPending
    /\ addPending' = addPending \ {p}
    /\ events' = <<CartChangedEvent, SuccessToast>>
    /\ UNCHANGED viewVars
    /\ last' = [op |-> "addToCartThen", call |-> p.call, evt |-> p.evt]
    /\ UNCHANGED <<addIssued, addRequest, _effectiveAccountId>>
    /\ UNCHANGED <<searchVars, cartVars, compareVars>>

\* a .catch callback of addToCart that also announces a cart change
addToCartCatch_cartchanged(p) ==
    /\ p \in addPending
    /\ addPending' = addPending \ {p}
    /\ events' = <<CartChangedEvent, ErrorToast(p.evt.productName)>>
    /\ UNCHANGED viewVars
    /\ last' = [op |-> "addToCartCatch", call |-> p.call, evt |-> p.evt]
    /\ UNCHANGED <<addIssued, addRequest, _effectiveAccountId>>
    /\ UNCHANGED <<searchVars, cartVars, compareVars>>

\* the .catch callback of the addToCart call p
addToCartCatch(p) ==
    /\ p \in addPending
    /\ addPending' = addPending \ {p}
    /\ events' = <<ErrorToast(p.evt.productName)>>
    /\ UNCHANGED viewVars
    /\ last' = [op |-> "addToCartCatch", call |-> p.call, evt |-> p.evt]
    /\ UNCHANGED <<addIssued, addRequest, _effectiveAccountId>>
    /\ UNCHANGED <<searchVars, cartVars, compareVars>>

(***************************************************************************)
(* Scratch Cache (CacheController): the staged comparison set              *)
(***************************************************************************)
\* put(entry): the id joins the staged set
ScratchCachePut(staged, id) == staged \cup {id}

\* clear(): the staged set is emptied
ScratchCacheClear == {}

(***************************************************************************)
(* Comparison modal                                                        *)
(***************************************************************************)
\* what the gateway can answer to getProducts
ProductSets == {[products |-> <<>>], [products |-> <<"p1">>]}

\* displayComparingModal()
displayComparingModal ==
    /\ productsIssued < MaxProductsCalls
    /\ productsIssued' = productsIssued + 1
    /\ productsRequest' =
          [effectiveAccountId |-> resolvedEffectiveAccountId(_effectiveAccountId)]
    /\ productsPending' = productsPending \cup {productsIssued + 1}
    /\ last' = [op |-> "displayComparingModal"]
    /\ events' = <<>>
    /\ UNCHANGED viewVars
    /\ UNCHANGED <<_comparatorData, isComparingModalOpen, idsToCompare,
                   cleanCalls, closedAt, cleanPending, _effectiveAccountId>>
    /\ UNCHANGED <<searchVars, cartVars, addVars>>

\* the .then callback of the getProducts call number call
getProductsThen(call, result) ==
    /\ call \in productsPending
    /\ productsPending' = productsPending \ {call}
    /\ _comparatorData' = result
    /\ isComparingModalOpen' = TRUE
    /\ last' = [op |-> "getProductsThen", call |-> call, result |-> result]
    /\ events' = <<>>
    /\ UNCHANGED viewVars
    /\ UNCHANGED <<idsToCompare, productsIssued, productsRequest, cleanCalls, closedAt, cleanPending,
                   _effectiveAccountId>>
    /\ UNCHANGED <<searchVars, cartVars, addVars>>

\* a .catch callback of getProducts that opens the modal all the same
getProductsCatch_open(call) ==
    /\ call \in productsPending
    /\ productsPending' = productsPending \ {call}
    /\ isComparingModalOpen' = TRUE
    /\ last' = [op |-> "getProductsCatch", call |-> call]
    /\ events' = <<>>
    /\ UNCHANGED viewVars
    /\ UNCHANGED <<_comparatorData, idsToCompare, productsIssued, productsRequest,
                   cleanCalls, closedAt, cleanPending, _effectiveAccountId>>
    /\ UNCHANGED <<searchVars, cartVars, addVars>>

\* the .catch callback of the getProducts call number call
getProductsCatch(call) ==
    /\ call \in productsPending
    /\ productsPending' = productsPending \ {call}
    /\ last' = [op |-> "getProductsCatch", call |-> call]
    /\ events' = <<>>
    /\ UNCHANGED viewVars
    /\ UNCHANGED <<_comparatorData, isComparingModalOpen, idsToCompare,
                   productsIssued, productsRequest, cleanCalls, closedAt, cleanPending,
                   _effectiveAccountId>>
    /\ UNCHANGED <<searchVars, cartVars, addVars>>

\* closeComparingModal() that leaves the closing to a callback of cleanCache
closeComparingModal_deferred ==
    /\ cleanCalls < MaxCleanCalls
    /\ cleanCalls' = cleanCalls + 1
    /\ cleanPending' = cleanPending \cup {cleanCalls + 1}
    /\ closedAt' = productsIssued
    /\ last' = [op |-> "closeComparingModal"]
    /\ events' = <<>>
    /\ UNCHANGED viewVars
    /\ UNCHANGED <<_comparatorData, isComparingModalOpen, idsToCompare,
                   productsIssued, productsRequest, productsPending,
                   _effectiveAccountId>>
    /\ UNCHANGED <<searchVars, cartVars, addVars>>

\* closeComparingModal()
closeComparingModal ==
    /\ cleanCalls < MaxCleanCalls
    /\ cleanCalls' = cleanCalls + 1
    /\ cleanPending' = cleanPending \cup {cleanCalls + 1}
    /\ idsToCompare' = ""
    /\ isComparingModalOpen' = FALSE
    /\ closedAt' = productsIssued
    /\ last' = [op |-> "closeComparingModal"]
    /\ events' = <<>>
    /\ UNCHANGED viewVars
    /\ UNCHANGED <<_comparatorData, productsIssued, productsRequest,
                   productsPending, _effectiveAccountId>>
    /\ UNCHANGED <<searchVars, cartVars, addVars>>

\* the cleanCache call number call resolves: no callback is attached
cleanCacheResolved(call) ==
    /\ call \in cleanPending
    /\ cleanPending' = cleanPending \ {call}
    /\ last' = [op |-> "cleanCacheResolved", call |-> call]
    /\ events' = <<>>
    /\ cache' = ScratchCacheClear
    /\ UNCHANGED <<listVars, cardVars, putIssued, putRequest, putPending,
                   shownHeaderText>>
    /\ UNCHANGED <<_comparatorData, isComparingModalOpen, idsToCompare,
                   productsIssued, productsRequest, productsPending, cleanCalls, closedAt,
                   _effectiveAccountId>>
    /\ UNCHANGED <<searchVars, cartVars, addVars>>

\* the .catch callback of the cleanCache call number call
cleanCacheCatch(call) ==
    /\ call \in cleanPending
    /\ cleanPending' = cleanPending \ {call}
    /\ last' = [op |-> "cleanCacheCatch", call |-> call]
    /\ events' = <<>>
    /\ UNCHANGED viewVars
    /\ UNCHANGED <<_comparatorData, isComparingModalOpen, idsToCompare,
                   productsIssued, productsRequest, productsPending, cleanCalls, closedAt,
                   _effectiveAccountId>>
    /\ UNCHANGED <<searchVars, cartVars, addVars>>

(***************************************************************************)
(* The header of the results, for any page the gateway may have sent       *)
(***************************************************************************)
MaxHeaderPage == 3
HeaderTotals == {0, 1, 2, 5, 45, 46}
HeaderPageSizes == {1, 2, 25}

\* the component shows some page of some result
HeaderInit ==
    /\ SearchResultsInit
    /\ _pageNumber \in 1..MaxHeaderPage
    /\ _displayData \in
          {NoObject} \cup {transformData(data) :
                             data \in [total : HeaderTotals, pageSize : HeaderPageSizes]}
    /\ shownHeaderText = Undefined
    /\ CustomProductListInit
    /\ ScratchCacheInit
    /\ NoCardInit

\* the template reads headerText
renderHeader ==
    /\ shownHeaderText' = headerText
    /\ last' = [op |-> "renderHeader"]
    /\ events' = <<>>
    /\ UNCHANGED <<searchVars, cartVars, addVars, compareVars, _effectiveAccountId,
                   listVars, cardVars, cacheVars>>

(***************************************************************************)
(* SearchCard: the view model of one product                               *)
(***************************************************************************)
MaxFields == 2
MaxPutCalls == 4
FieldNames == {"Name", "Description", "Family"}
FieldValues == {"Lamp", "Oak"}
PriceStrings == {"", "9", "10", "10.0"}

\* an object without keys
EmptyObject == <<>>

\* o[k] of JavaScript: undefined for a key o does not have
Get(o, k) == IF k \in DOMAIN o THEN o[k] ELSE Undefined

\* the lists of at most n fields
FieldLists(n) ==
    UNION {[1..len -> [name : FieldNames, value : FieldValues]] : len \in 0..n}

\* the prices object of a product, with each price present or not
PricesObjects ==
    {("currencyIsoCode" :> "USD") @@ l @@ n :
        l \in {EmptyObject} \cup {"listingPrice" :> v : v \in PriceStrings},
        n \in {EmptyObject} \cup {"negotiatedPrice" :> v : v \in PriceStrings}}

\* the products the gateway can send: image, fields and prices are optional
RawProducts ==
    {[id |-> "p1", name |-> "Lamp"] @@ i @@ f @@ p :
        i \in {EmptyObject, "image" :> [url |-> "/lamp.png"]},
        f \in {EmptyObject} \cup {"fields" :> fs : fs \in FieldLists(MaxFields)},
        p \in {EmptyObject} \cup {"prices" :> po : po \in PricesObjects}}

\* the card data transformData (./dataNormalizer) makes of one product:
\* the image defaults to an empty object, prices is always an object, the
\* fields are handed on as they are
transformProduct(raw) ==
    [id |-> raw.id,
     name |-> raw.name,
     image |-> IF "image" \in DOMAIN raw THEN raw.image ELSE EmptyObject,
     prices |-> IF "prices" \in DOMAIN raw THEN raw.prices ELSE EmptyObject]
    @@ (IF "fields" \in DOMAIN raw THEN "fields" :> raw.fields ELSE EmptyObject)

\* a getter returns a value
Return(v) == [value |-> v]

\* a getter raises the TypeError of reading a property of undefined
Throw == [error |-> "TypeError"]

\* Number(s) for the price strings
Number(s) ==
    CASE s = "" -> 0
      [] s = "9" -> 9
      [] s = "10" -> 10
      [] s = "10.0" -> 10

\* get image(); an image that is there is an object, which is truthy
image(d) == Return(IF "image" \in DOMAIN d THEN d.image ELSE EmptyObject)

\* a field value that drops the label of Name only
fieldValue_nameonly(name, value) ==
    IF name = "Name" THEN value ELSE name \o ": " \o value

\* the value of a field in get fields()
fieldValue(name, value) ==
    IF name = "Name" \/ name = "Description" THEN value ELSE name \o ": " \o value

\* a tabIndex that makes every field a tab stop
fieldTabIndex_all(id) == 0

\* the tabIndex of the field at 0-based index id in get fields()
fieldTabIndex(id) == IF id = 0 THEN 0 ELSE -1

\* the class of the field at 0-based index id in get fields()
fieldClass(id) ==
    IF id # 0 THEN "slds-truncate slds-text-heading_small"
    ELSE "slds-truncate slds-text-heading_medium"

\* the array get fields() maps list to; the field at position i has the
\* 0-based index i - 1
mapFields(list) ==
    [i \in 1..Len(list) |->
        [id |-> (i - 1) + 1,
         tabIndex |-> fieldTabIndex(i - 1),
         class |-> fieldClass(i - 1),
         value |-> fieldValue(list[i].name, list[i].value)]]

\* a get fields() that maps this.displayData.fields without a default
fields_nodefault(d) ==
    IF "fields" \notin DOMAIN d THEN Throw ELSE Return(mapFields(d.fields))

\* get fields()
fields(d) ==
    Return(mapFields(IF "fields" \in DOMAIN d THEN d.fields ELSE <<>>))

\* get price()
price(d) ==
    IF "prices" \notin DOMAIN d
    THEN Throw
    ELSE IF Truthy(Get(d.prices, "negotiatedPrice"))
         THEN Return(d.prices.negotiatedPrice)
         ELSE Return(Get(d.prices, "listingPrice"))

\* get hasPrice()
hasPrice(d) ==
    IF price(d) = Throw THEN Throw ELSE Return(Truthy(price(d).value))

\* get listingPrice()
listingPrice(d) ==
    IF "prices" \notin DOMAIN d THEN Throw ELSE Return(Get(d.prices, "listingPrice"))

\* a canShowListingPrice() that compares the two strings as strings
canShowListingPrice_strings(d) ==
    IF "prices" \notin DOMAIN d
    THEN Throw
    ELSE LET prices == d.prices
             StringRank(s) == CASE s = "" -> 0 [] s = "10" -> 1
                                [] s = "10.0" -> 2 [] s = "9" -> 3
         IN  IF ~Truthy(Get(prices, "negotiatedPrice"))
             THEN Return(Get(prices, "negotiatedPrice"))
             ELSE IF ~Truthy(Get(prices, "listingPrice"))
                  THEN Return(Get(prices, "listingPrice"))
                  ELSE IF StringRank(prices.listingPrice) > StringRank(prices.negotiatedPrice)
                       THEN Return("true") ELSE Return("false")

\* get canShowListingPrice(): a && b && c gives the first falsy operand,
\* or else c; the booleans true and false are written "true" and "false"
canShowListingPrice(d) ==
    IF "prices" \notin DOMAIN d
    THEN Throw
    ELSE LET prices == d.prices
         IN  IF ~Truthy(Get(prices, "negotiatedPrice"))
             THEN Return(Get(prices, "negotiatedPrice"))
             ELSE IF ~Truthy(Get(prices, "listingPrice"))
                  THEN Return(Get(prices, "listingPrice"))
                  ELSE IF Number(prices.listingPrice) > Number(prices.negotiatedPrice)
                       THEN Return("true") ELSE Return("false")

\* get currency()
currency(d) ==
    IF "prices" \notin DOMAIN d THEN Throw ELSE Return(Get(d.prices, "currencyIsoCode"))

\* a card is created for some product of the result page
CardInit ==
    /\ SearchResultsInit
    /\ _pageNumber = 1
    /\ _displayData = NoObject
    /\ shownHeaderText = Undefined
    /\ CustomProductListInit
    /\ ScratchCacheInit
    /\ rawProduct \in RawProducts
    /\ card_displayData = transformProduct(rawProduct)
    /\ cardView = NoObject

\* the template of the card reads the getters
renderCard ==
    /\ card_displayData # NoObject
    /\ cardView' = [image |-> image(card_displayData),
                    fields |-> fields(card_displayData),
                    price |-> price(card_displayData),
                    hasPrice |-> hasPrice(card_displayData),
                    listingPrice |-> listingPrice(card_displayData),
                    canShowListingPrice |-> canShowListingPrice(card_displayData),
                    currency |-> currency(card_displayData)]
    /\ last' = [op |-> "renderCard"]
    /\ events' = <<>>
    /\ UNCHANGED <<searchVars, cartVars, addVars, compareVars, _effectiveAccountId,
                   listVars, rawProduct, card_displayData, cacheVars, shownHeaderText>>

\* the ids of the products whose compare checkbox can be ticked
CandidateIds == {"p1", "p2", "p3", "p4"}

\* addToListToCompare(event): putToCache({retrievedId}) and nothing else; the
\* promise has no then and no catch, the test of the length is commented out
addToListToCompare(id) ==
    /\ putIssued < MaxPutCalls
    /\ putIssued' = putIssued + 1
    /\ putRequest' = [retrievedId |-> id]
    /\ putPending' = putPending \cup {[call |-> putIssued + 1, retrievedId |-> id]}
    /\ last' = [op |-> "addToListToCompare", call |-> putIssued + 1]
    /\ events' = <<>>
    /\ UNCHANGED <<searchVars, cartVars, addVars, compareVars, _effectiveAccountId,
                   listVars, cardVars, cache, shownHeaderText>>

\* the cache has served the put p
putToCacheResolved(p) ==
    /\ p \in putPending
    /\ putPending' = putPending \ {p}
    /\ cache' = ScratchCachePut(cache, p.retrievedId)
    /\ last' = [op |-> "putToCacheResolved", call |-> p.call]
    /\ events' = <<>>
    /\ UNCHANGED <<searchVars, cartVars, addVars, compareVars, _effectiveAccountId,
                   listVars, cardVars, putIssued, putRequest, shownHeaderText>>

\* the event the window raises for a rejected promise that has no handler
UnhandledRejection == [type |-> "unhandledrejection"]

\* the put p has failed: the promise of putToCache has no catch, and the
\* rejection goes to the window as unhandled
putToCacheRejected(p) ==
    /\ p \in putPending
    /\ putPending' = putPending \ {p}
    /\ last' = [op |-> "putToCacheRejected", call |-> p.call]
    /\ events' = <<UnhandledRejection>>
    /\ UNCHANGED <<searchVars, cartVars, addVars, compareVars, _effectiveAccountId,
                   listVars, cardVars, cache, putIssued, putRequest, shownHeaderText>>

(***************************************************************************)
(* CustomProductList                                                       *)
(***************************************************************************)
\* this.resolvedEffectiveAccountId of CustomProductList: the getter is
\* commented out, the property does not exist
list_resolvedEffectiveAccountId == Undefined

\* the parent assigns the @api field effectiveAccountId
list_setEffectiveAccountId(newId) ==
    /\ ~listMounted
    /\ list_effectiveAccountId' = newId
    /\ last' = [op |-> "list_effectiveAccountId"]
    /\ events' = <<>>
    /\ UNCHANGED <<list_products, listMounted, listRequest, listPending>>
    /\ UNCHANGED <<searchVars, cartVars, addVars, compareVars, _effectiveAccountId,
                   cardVars, cacheVars, shownHeaderText>>

\* CustomProductList.connectedCallback()
list_connectedCallback ==
    /\ ~listMounted
    /\ listMounted' = TRUE
    /\ listRequest' =
          [effectiveAccountId |-> ApexArgument(list_resolvedEffectiveAccountId)]
    /\ listPending' = TRUE
    /\ last' = [op |-> "list_connectedCallback"]
    /\ events' = <<>>
    /\ UNCHANGED <<list_effectiveAccountId, list_products>>
    /\ UNCHANGED <<searchVars, cartVars, addVars, compareVars, _effectiveAccountId,
                   cardVars, cacheVars, shownHeaderText>>

\* the .then callback of the getProducts call of CustomProductList
list_getProductsThen(result) ==
    /\ listPending
    /\ listPending' = FALSE
    /\ list_products' = result
    /\ last' = [op |-> "list_getProductsThen"]
    /\ events' = <<>>
    /\ UNCHANGED <<list_effectiveAccountId, listMounted, listRequest>>
    /\ UNCHANGED <<searchVars, cartVars, addVars, compareVars, _effectiveAccountId,
                   cardVars, cacheVars, shownHeaderText>>

\* the getProducts call of CustomProductList rejects: no callback is attached
list_getProductsRejected ==
    /\ listPending
    /\ listPending' = FALSE
    /\ last' = [op |-> "list_getProductsRejected"]
    /\ events' = <<>>
    /\ UNCHANGED <<list_effectiveAccountId, list_products, listMounted, listRequest>>
    /\ UNCHANGED <<searchVars, cartVars, addVars, compareVars, _effectiveAccountId,
                   cardVars, cacheVars, shownHeaderText>>

(***************************************************************************)
(* Specifications                                                          *)
(***************************************************************************)
SearchNext ==
    \/ \E value \in CategoryIds : setRecordId(value)
    \/ \E value \in Terms \cup {Undefined} : setTerm(value)
    \/ handleClearAll
    \/ handlePreviousPage
    \/ handleNextPage
    \/ \E refinements \in RefinementLists : handleFacetValueUpdate(refinements)
    \/ \E categoryId \in CategoryIds : handleCategoryUpdate(categoryId)
    \/ \E call \in searchPending, result \in ResultPages : productSearchThen(call, result)
    \/ \E call \in searchPending : productSearchCatch(call)

CartNext ==
    \/ connectedCallback
    \/ \E newId \in AccountIds : setEffectiveAccountId(newId)
    \/ \E call \in cartPending, result \in CartSummaries : getCartSummaryThen(call, result)
    \/ \E call \in cartPending : getCartSummaryCatch(call)
    \/ \E productId \in ProductIds : handleAction(productId, ProductName(productId))
    \/ \E p \in addPending : addToCartThen(p)
    \/ \E p \in addPending : addToCartCatch(p)

CompareNext ==
    \/ displayComparingModal
    \/ \E call \in productsPending, result \in ProductSets : getProductsThen(call, result)
    \/ \E call \in productsPending : getProductsCatch(call)
    \/ closeComparingModal
    \/ \E call \in cleanPending : cleanCacheResolved(call)
    \/ \E call \in cleanPending : cleanCacheCatch(call)

\* some productSearch call in flight settles, with a result or with an error
settleSearch ==
    \/ \E call \in searchPending, result \in ResultPages : productSearchThen(call, result)
    \/ \E call \in searchPending : productSearchCatch(call)

\* searches issued by paging and by the term, and their settling
LoadingNext ==
    \/ \E value \in Terms : setTerm(value)
    \/ handleNextPage
    \/ \E call \in searchPending, result \in ResultPages : productSearchThen(call, result)
    \/ \E call \in searchPending : productSearchCatch(call)

HeaderNext == renderHeader

CardNext == renderCard

ListNext ==
    \/ \E newId \in AccountIds : list_setEffectiveAccountId(newId)
    \/ list_connectedCallback
    \/ \E result \in ProductSets : list_getProductsThen(result.products)
    \/ list_getProductsRejected

\* every handler that issues a gateway call, with the account id changing
AccountNext ==
    \/ \E newId \in AccountIds : setEffectiveAccountId(newId)
    \/ connectedCallback
    \/ handleNextPage
    \/ \E productId \in ProductIds : handleAction(productId, ProductName(productId))
    \/ displayComparingModal
    \/ ListNext

CacheNext ==
    \/ \E id \in CandidateIds : addToListToCompare(id)
    \/ \E p \in putPending : putToCacheResolved(p)
    \/ \E p \in putPending : putToCacheRejected(p)
    \/ closeComparingModal
    \/ \E call \in cleanPending : cleanCacheResolved(call)
    \/ \E call \in cleanPending : cleanCacheCatch(call)

Next == SearchNext \/ CartNext \/ CompareNext \/ ListNext \/ CacheNext

\* the search / pagination coordinator on its own
SearchSpec == Init /\ [][SearchNext]_vars
\* the cart state tracker on its own
CartSpec == Init /\ [][CartNext]_vars
\* the comparison modal on its own
CompareSpec == Init /\ [][CompareNext]_vars
\* the staging of products to compare, and the closing of the modal
CacheSpec == Init /\ [][CacheNext]_vars
\* the gateway calls of both components under a changing account id
AccountSpec == Init /\ [][AccountNext]_vars
\* the loading flag, when every productSearch call settles in the end
LoadingSpec == Init /\ [][LoadingNext]_vars /\ WF_vars(settleSearch)
\* the header text of any page
HeaderSpec == HeaderInit /\ [][HeaderNext]_vars
\* the view model of any product
CardSpec == CardInit /\ [][CardNext]_vars
\* the whole component
Spec == Init /\ [][Next]_vars

(***************************************************************************)
(* Properties                                                              *)
(***************************************************************************)
\* the fields of the component, without the bookkeeping of the calls
componentState ==
    <<_pageNumber, _refinements, _term, _recordId, _landingRecordId,
      _displayData, _isLoading, error, _effectiveAccountId, _cartSummary,
      _comparatorData, isComparingModalOpen, idsToCompare>>

\* the handlers that change the term, the category, the refinements or the page
QueryHandlers ==
    {"recordId", "term", "handleClearAll", "handlePreviousPage",
     "handleNextPage", "handleFacetValueUpdate", "handleCategoryUpdate"}

\* C1: a search response is applied to the displayed page only when it
\* answers the most recently issued search; the callback that has just set
\* displayData is never the callback of an older call.
C1_OnlyLatestRendered ==
    last.op = "productSearchThen" => last.call = searchIssued

\* C2: while the most recently issued search has not settled, isLoading is
\* true, even if older searches have settled in the meantime.
C2_LoadingUntilLatestSettles ==
    searchIssued \in searchPending => isLoading

\* C3: closeComparingModal() leaves isComparingModalOpen false and the local
\* comparison ids empty, and the settling of its cleanCache call, resolved
\* or rejected, changes no field of the component.
C3_CloseAlwaysCloses ==
    [][ /\ last'.op = "closeComparingModal"
           => (isComparingModalOpen' = FALSE /\ idsToCompare' = "")
        /\ last'.op \in {"cleanCacheCatch", "cleanCacheResolved"}
           => UNCHANGED componentState ]_vars

\* C3 witness: a cleanCache call has failed after a modal that had been
\* opened was closed.
C3_Witness ==
    /\ last.op = "cleanCacheCatch"
    /\ _comparatorData # NoObject
    /\ ~isComparingModalOpen
    /\ idsToCompare = ""

\* C4: isComparingModalOpen turns true only in the success callback of
\* getProducts, which also stores the products; the failure callback and
\* the call of displayComparingModal() itself leave the flag and the
\* comparison data as they were.
C4_OpenOnlyOnSuccess ==
    [][ /\ (isComparingModalOpen' /\ ~isComparingModalOpen)
           => last'.op = "getProductsThen"
        /\ last'.op = "getProductsThen"
           => (isComparingModalOpen' /\ _comparatorData' = last'.result)
        /\ last'.op \in {"getProductsCatch", "displayComparingModal"}
           => UNCHANGED <<isComparingModalOpen, _comparatorData>> ]_vars

\* C4 witness: the only getProducts call issued so far has failed and the
\* modal is closed.
C4_Witness ==
    /\ last.op = "getProductsCatch"
    /\ productsIssued = 1
    /\ ~isComparingModalOpen

\* C5: the success callback of getCartSummary stores exactly the response;
\* the failure callback leaves the stored summary, and so the cart-locked
\* flag, as it was.
C5_RefreshReplacesOrRetains ==
    [][ /\ last'.op = "getCartSummaryThen" => _cartSummary' = last'.result
        /\ last'.op = "getCartSummaryCatch"
           => (UNCHANGED _cartSummary /\ isCartLocked' = isCartLocked) ]_vars

\* C5 witness: a refresh has failed while a summary of a locked cart was
\* stored.
C5_Witness ==
    /\ last.op = "getCartSummaryCatch"
    /\ _cartSummary # NoObject
    /\ isCartLocked

\* C6 as stated: the success callback of addToCart issues a getCartSummary
\* call.
C6_RefetchAfterAddToCart ==
    [][ last'.op = "addToCartThen" => cartIssued' = cartIssued + 1 ]_vars

\* C6 amended: getCartSummary is called exactly by connectedCallback() and
\* by the effectiveAccountId setter, once each; the success callback of
\* addToCart calls nothing, it dispatches cartchanged and the success toast.
C6_RefetchOnMountAndAccount ==
    [][ /\ last'.op \in {"connectedCallback", "effectiveAccountId"}
           => (cartIssued' = cartIssued + 1 /\ cartIssued' \in cartPending')
        /\ cartIssued' # cartIssued
           => last'.op \in {"connectedCallback", "effectiveAccountId"}
        /\ last'.op = "addToCartThen"
           => (/\ UNCHANGED <<cartIssued, cartPending>>
               /\ events' = <<CartChangedEvent, SuccessToast>>) ]_vars

\* C6 witness: an addToCart call has succeeded on a mounted component and
\* no getCartSummary call is in flight.
C6_Witness ==
    /\ last.op = "addToCartThen"
    /\ mounted
    /\ cartPending = {}

\* C7: handleAction issues one addToCart call and dispatches nothing; the
\* call settles once, either with cartchanged followed by the success toast
\* or with the error toast naming the product of that action alone; no
\* callback issues an addToCart call.
C7_AddToCartOutcome ==
    [][ /\ last'.op = "handleAction"
           => (/\ addIssued' = addIssued + 1
               /\ Cardinality(addPending') = Cardinality(addPending) + 1
               /\ events' = <<>>)
        /\ addIssued' # addIssued => last'.op = "handleAction"
        /\ last'.op = "addToCartThen"
           => (/\ events' = <<CartChangedEvent, SuccessToast>>
               /\ addPending' = addPending \ {[call |-> last'.call, evt |-> last'.evt]}
               /\ Cardinality(addPending') = Cardinality(addPending) - 1)
        /\ last'.op = "addToCartCatch"
           => (/\ events' = <<ErrorToast(ProductName(last'.evt.productId))>>
               /\ addPending' = addPending \ {[call |-> last'.call, evt |-> last'.evt]}
               /\ Cardinality(addPending') = Cardinality(addPending) - 1) ]_vars

\* C7 witness: the second addToCart call, for the chair, has failed.
C7_Witness ==
    /\ last.op = "addToCartCatch"
    /\ last.call = 2
    /\ events = <<ErrorToast("Chair")>>

\* C8 as stated: every handler that changes the term, the category, the
\* refinements or the page issues one search.
C8_OneSearchPerChange ==
    [][ last'.op \in QueryHandlers => searchIssued' = searchIssued + 1 ]_vars

\* C8 amended: the handlers that change the category, the refinements or
\* the page issue one search each; the term setter issues one search for a
\* non-empty term and none for an empty or undefined term.
C8_OneSearchPerChangeButEmptyTerm ==
    [][ /\ last'.op \in QueryHandlers \ {"term"}
           => (searchIssued' = searchIssued + 1 /\ searchIssued' \in searchPending')
        /\ last'.op = "term"
           => IF Truthy(_term')
              THEN searchIssued' = searchIssued + 1 /\ searchIssued' \in searchPending'
              ELSE UNCHANGED <<searchIssued, searchPending, _isLoading>> ]_vars

\* C8 witness: the term was set to the empty string and no search is in
\* flight.
C8_Witness ==
    /\ last.op = "term"
    /\ _term = ""
    /\ searchPending = {}
    /\ searchIssued > 0

\* C9: after handleClearAll() the refinements are empty, the category is the
\* one last assigned through recordId, the page is 1, and the search just
\* issued carries these values (page 1 as 0-based page 0).
C9_ClearAllResets ==
    last.op = "handleClearAll"
    => /\ _refinements = <<>>
       /\ _recordId = lastRecordIdSet
       /\ _pageNumber = 1
       /\ searchIssued \in searchPending
       /\ searchRequest.searchQuery =
             [searchTerm |-> _term,
              categoryId |-> lastRecordIdSet,
              refinements |-> <<>>,
              page |-> 0,
              includePrices |-> TRUE,
              includeQuantityRule |-> TRUE]

\* C9 witness: clearAll ran as the third search, after a landing on cat1.
C9_Witness ==
    /\ last.op = "handleClearAll"
    /\ lastRecordIdSet = "cat1"
    /\ searchIssued = 3

\* C10 as stated: the page number is at least 1 in every reachable state.
C10_PageAtLeastOne ==
    _pageNumber >= 1

\* C10 amended: the page number is an integer; every operation but
\* handlePreviousPage keeps a page number that is at least 1 at least 1,
\* and handlePreviousPage subtracts 1 without clamping.
C10_PageAtLeastOneButPrevious ==
    /\ [](_pageNumber \in Int)
    /\ [][ /\ (last'.op # "handlePreviousPage" /\ _pageNumber >= 1)
              => _pageNumber' >= 1
           /\ last'.op = "handlePreviousPage"
              => _pageNumber' = _pageNumber - 1 ]_vars

\* C10 witness: handlePreviousPage has taken the page number to 0.
C10_Witness ==
    /\ last.op = "handlePreviousPage"
    /\ _pageNumber = 0

\* C11: handleNextPage adds exactly 1 to the page and handlePreviousPage
\* subtracts exactly 1, unclamped; the search each issues carries the new
\* page minus 1 and the unchanged term, category and refinements.
C11_PageStepAndZeroBasedRequest ==
    [][ /\ last'.op = "handleNextPage" => _pageNumber' = _pageNumber + 1
        /\ last'.op = "handlePreviousPage" => _pageNumber' = _pageNumber - 1
        /\ last'.op \in {"handleNextPage", "handlePreviousPage"}
           => (/\ UNCHANGED <<_term, _recordId, _refinements>>
               /\ searchIssued' = searchIssued + 1
               /\ searchRequest'.searchQuery.page = _pageNumber' - 1
               /\ searchRequest'.searchQuery.searchTerm = _term
               /\ searchRequest'.searchQuery.categoryId = _recordId
               /\ searchRequest'.searchQuery.refinements = _refinements) ]_vars

\* C11 witness: handlePreviousPage on page 1 has asked for page -1.
C11_Witness ==
    /\ last.op = "handlePreviousPage"
    /\ _pageNumber = 0
    /\ searchRequest.searchQuery.page = -1
    /\ _refinements # <<>>

\* the statuses of a locked cart
LockedStatuses == {"Processing", "Checkout"}

\* C12: isCartLocked, and the actionDisabled the cards derive from config,
\* are true exactly when a CartSummary is stored and its status is
\* Processing or Checkout.
C12_LockedIffProcessingOrCheckout ==
    LET locked == _cartSummary # NoObject /\ _cartSummary.status \in LockedStatuses
    IN  /\ isCartLocked = locked
        /\ actionDisabled(config.layoutConfig.cardConfig) = locked

\* C12 witness: the stored summary says Checkout and the cards are disabled.
C12_Witness ==
    /\ _cartSummary = [status |-> "Checkout"]
    /\ actionDisabled(config.layoutConfig.cardConfig)

\* the resolved account id as the specification words it
ResolvedAccount(accountId) ==
    IF accountId \in {Undefined, "", ZeroAccountId} THEN Null ELSE accountId

\* C13: resolvedEffectiveAccountId is null for an unset, an empty and the
\* all-zero effectiveAccountId and is effectiveAccountId itself otherwise;
\* the refresh the setter issues carries this value.
C13_ResolvedAccountId ==
    /\ resolvedEffectiveAccountId(_effectiveAccountId) = ResolvedAccount(_effectiveAccountId)
    /\ last.op = "effectiveAccountId"
       => cartRequest.effectiveAccountId = ResolvedAccount(_effectiveAccountId)

\* C13 witness: the setter was given the all-zero placeholder and asked for
\* the cart of no account.
C13_Witness ==
    /\ last.op = "effectiveAccountId"
    /\ _effectiveAccountId = ZeroAccountId
    /\ cartRequest.effectiveAccountId = Null

\* C14: the gateway call a handler has just issued carries the resolved
\* account id of its component, and the effectiveAccountId setter has just
\* issued a getCartSummary call with the newly resolved id.
C14_CallsCarryResolvedAccount ==
    /\ last.op = "handleNextPage"
       => searchRequest.effectiveAccountId = ResolvedAccount(_effectiveAccountId)
    /\ last.op \in {"effectiveAccountId", "connectedCallback"}
       => (/\ cartIssued \in cartPending
           /\ cartRequest.effectiveAccountId = ResolvedAccount(_effectiveAccountId))
    /\ last.op = "handleAction"
       => addRequest.effectiveAccountId = ResolvedAccount(_effectiveAccountId)
    /\ last.op = "displayComparingModal"
       => productsRequest.effectiveAccountId = ResolvedAccount(_effectiveAccountId)
    /\ last.op = "list_connectedCallback"
       => listRequest.effectiveAccountId = ResolvedAccount(list_effectiveAccountId)

\* C15: the header text is empty for a total of 0, "1 Result" for a total of
\* 1, and for a larger total "start - end of total Items" with start =
\* (page-1)*pageSize+1 and end = min(start+pageSize-1, total); page 2 of 45
\* items in pages of 25 gives "26 - 45 of 45 Items".
C15_HeaderText ==
    (last.op = "renderHeader" /\ _displayData # NoObject)
    => LET total == _displayData.total
           start == (_pageNumber - 1) * _displayData.pageSize + 1
           full == start + _displayData.pageSize - 1
           end == IF full <= total THEN full ELSE total
       IN  /\ total = 0 => shownHeaderText = ""
           /\ total = 1 => shownHeaderText = "1 Result"
           /\ total > 1 => shownHeaderText =
                 ToString(start) \o " - " \o ToString(end) \o " of "
                 \o ToString(total) \o " Items"
           /\ (total = 45 /\ _displayData.pageSize = 25 /\ _pageNumber = 2)
              => shownHeaderText = "26 - 45 of 45 Items"

\* C15 witness: page 2 of 45 items in pages of 25 has been rendered.
C15_Witness ==
    /\ last.op = "renderHeader"
    /\ _displayData = [total |-> 45, pageSize |-> 25]
    /\ _pageNumber = 2
    /\ shownHeaderText = "26 - 45 of 45 Items"

\* the names of the getters the template of a card reads
CardGetters ==
    {"image", "fields", "price", "hasPrice", "listingPrice",
     "canShowListingPrice", "currency"}

\* C16: the formatted fields of a card are as many as its fields and in
\* their order; the value of a Name or Description field is shown as it is,
\* the value of any other field as "name: value".
C16_FieldFormatting ==
    (last.op = "renderCard" /\ "fields" \in DOMAIN card_displayData)
    => LET in == card_displayData.fields
           out == cardView.fields.value
       IN  /\ Len(out) = Len(in)
           /\ \A i \in 1..Len(in) :
                 out[i].value =
                    IF in[i].name \in {"Name", "Description"}
                    THEN in[i].value
                    ELSE in[i].name \o ": " \o in[i].value

\* C16 witness: a Description and a Family field have been formatted.
C16_Witness ==
    /\ last.op = "renderCard"
    /\ "fields" \in DOMAIN card_displayData
    /\ Len(card_displayData.fields) = 2
    /\ card_displayData.fields[1].name = "Description"
    /\ cardView.fields.value[1].value = "Oak"
    /\ cardView.fields.value[2].value = "Family: Lamp"

\* C17: the first formatted field has tabIndex 0 and the medium heading,
\* every other one tabIndex -1 and the small heading, so a card with fields
\* has exactly one tab stop; the ids are the 1-based positions.
C17_SingleTabStop ==
    last.op = "renderCard"
    => LET out == cardView.fields.value
       IN  /\ \A i \in 1..Len(out) :
                 /\ out[i].id = i
                 /\ out[i].tabIndex = (IF i = 1 THEN 0 ELSE -1)
                 /\ out[i].class = (IF i = 1
                                    THEN "slds-truncate slds-text-heading_medium"
                                    ELSE "slds-truncate slds-text-heading_small")
           /\ Len(out) >= 1
              => Cardinality({i \in 1..Len(out) : out[i].tabIndex = 0}) = 1

\* C17 witness: a card with two fields has been rendered.
C17_Witness ==
    /\ last.op = "renderCard"
    /\ Len(cardView.fields.value) = 2
    /\ cardView.fields.value[2].tabIndex = -1
    /\ cardView.fields.value[2].id = 2

\* C18: canShowListingPrice is true exactly when the product has both a
\* non-empty listing price and a non-empty negotiated price and the listing
\* price is the greater number; with both there and the listing price equal
\* or lower it is false.
C18_CanShowListingPrice ==
    last.op = "renderCard"
    => LET prices == Get(rawProduct, "prices")
           both == /\ "prices" \in DOMAIN rawProduct
                   /\ "listingPrice" \in DOMAIN prices
                   /\ "negotiatedPrice" \in DOMAIN prices
                   /\ prices.listingPrice # ""
                   /\ prices.negotiatedPrice # ""
       IN  /\ cardView.canShowListingPrice = Return("true")
              <=> (both /\ Number(prices.listingPrice) > Number(prices.negotiatedPrice))
           /\ (both /\ Number(prices.listingPrice) <= Number(prices.negotiatedPrice))
              => cardView.canShowListingPrice = Return("false")

\* C18 witness: a listing price of 10 over a negotiated price of 9 is shown.
C18_Witness ==
    /\ last.op = "renderCard"
    /\ "prices" \in DOMAIN rawProduct
    /\ Get(rawProduct.prices, "listingPrice") = "10"
    /\ Get(rawProduct.prices, "negotiatedPrice") = "9"
    /\ cardView.canShowListingPrice = Return("true")

C20_AtMostThreeStaged == Cardinality(cache) <= 3

\* C21: addToListToCompare issues exactly one putToCache call, for the id of
\* the ticked product, and changes no field of the component; a put that
\* fails changes no field of the component and not the staged set, and it
\* raises nothing: no notification and no unhandled error.
C21_FireAndForgetPut ==
    [][ /\ last'.op = "addToListToCompare"
           => (/\ putIssued' = putIssued + 1
               /\ Cardinality(putPending') = Cardinality(putPending) + 1
               /\ [call |-> putIssued', retrievedId |-> putRequest'.retrievedId]
                     \in putPending'
               /\ events' = <<>>
               /\ UNCHANGED <<componentState, cache>>)
        /\ putIssued' # putIssued => last'.op = "addToListToCompare"
        /\ last'.op = "putToCacheRejected"
           => (/\ UNCHANGED <<componentState, cache>>
               /\ events' = <<>>) ]_vars

\* C22: after closeComparingModal() the modal opens again only on the
\* response to a getProducts call that displayComparingModal() issued after
\* that close; the response to a call issued before the close does not
\* re-open it.
C22_NoReopenAfterClose ==
    [][ (isComparingModalOpen' /\ ~isComparingModalOpen /\ cleanCalls' > 0)
        => (last'.op = "getProductsThen" /\ last'.call > closedAt') ]_vars

\* C23: once every getCartSummary call issued so far has settled and at
\* least one has succeeded, the stored summary is the response to the latest
\* issued call among those that succeeded, in whatever order they settled.
C23_LatestRefreshWins ==
    (cartPending = {} /\ cartLatestSuccess.call > 0)
    => _cartSummary = cartLatestSuccess.result

\* C24 as stated: whenever the header shows a range, 1 <= start <= end <=
\* total.
C24_HeaderRangeWithinTotal ==
    (_displayData # NoObject /\ _displayData.total > 1)
    => LET start == startIndex(_displayData.pageSize)
           end == endIndex(_displayData.pageSize, _displayData.total)
       IN  1 <= start /\ start <= end /\ end <= _displayData.total

\* C24 amended: whenever the header shows a range, it shows start =
\* (page-1)*pageSize+1 and end = min(start+pageSize-1, total), so end <=
\* total always; 1 <= start <= end holds when the page is at least 1 and
\* start is within the total, while a page below 1 gives start < 1 and a
\* page past the last gives start > end = total.
C24_HeaderRangeWhenPageInRange ==
    (_displayData # NoObject /\ _displayData.total > 1)
    => LET total == _displayData.total
           start == startIndex(_displayData.pageSize)
           end == endIndex(_displayData.pageSize, total)
       IN  /\ headerText = ToString(start) \o " - " \o ToString(end) \o " of "
                           \o ToString(total) \o " Items"
           /\ start = (_pageNumber - 1) * _displayData.pageSize + 1
           /\ end <= total
           /\ (_pageNumber >= 1 /\ start <= total) => (1 <= start /\ start <= end)
           /\ _pageNumber < 1 => start < 1
           /\ start > total => (end = total /\ end < start)

\* C24 witness: with searches still in flight, the header of page 4 of 5
\* items starts past its end, as in "7 - 5 of 5 Items".
C24_Witness ==
    /\ _displayData # NoObject
    /\ _displayData.total = 5
    /\ _pageNumber = 4
    /\ searchPending # {}
    /\ startIndex(_displayData.pageSize) > endIndex(_displayData.pageSize, 5)
    /\ endIndex(_displayData.pageSize, 5) = 5

\* C25: the failure callback of a search leaves the displayed page, the page
\* number, the term, the category, the landing category and the refinements
\* as they were; it stores the error and clears the loading flag, and issues
\* no search.
C25_FailedSearchFrame ==
    [][ last'.op = "productSearchCatch"
        => (/\ UNCHANGED <<_displayData, _pageNumber, _term, _recordId,
                           _landingRecordId, _refinements>>
            /\ UNCHANGED <<searchIssued, searchRequest>>
            /\ error' = "error"
            /\ _isLoading' = FALSE) ]_vars

\* C25 witness: a search has failed while a page of an earlier search is
\* displayed on page 2.
C25_Witness ==
    /\ last.op = "productSearchCatch"
    /\ _displayData # NoObject
    /\ _pageNumber = 2
    /\ error = "error"
    /\ ~_isLoading

\* C26: when every issued search settles in the end, a loading flag that is
\* set is cleared in the end; it is clear whenever no search is in flight,
\* and once clear it is set again only by the issuing of a search.
C26_LoadingEventuallyFalse ==
    /\ _isLoading ~> ~_isLoading
    /\ [](searchPending = {} => ~_isLoading)
    /\ [][ (~_isLoading /\ _isLoading') => searchIssued' = searchIssued + 1 ]_vars

\* C26 witness: every search the bound allows has been issued and has
\* settled, the last one with an error, and the flag is clear.
C26_Witness ==
    /\ searchIssued = MaxSearchCalls
    /\ searchPending = {}
    /\ last.op = "productSearchCatch"
    /\ ~_isLoading

\* C27: handleFacetValueUpdate and handleCategoryUpdate each set the page to
\* 1 and issue one search, for page 1 (0-based page 0) and the new value;
\* the facet update leaves the category and the landing category as they
\* were, the category update the refinements and the landing category.
C27_FacetAndCategoryResetPage ==
    [][ /\ last'.op \in {"handleFacetValueUpdate", "handleCategoryUpdate"}
           => (/\ _pageNumber' = 1
               /\ searchIssued' = searchIssued + 1
               /\ searchRequest'.searchQuery.page = 0
               /\ searchRequest'.searchQuery.refinements = _refinements'
               /\ searchRequest'.searchQuery.categoryId = _recordId'
               /\ UNCHANGED <<_landingRecordId, _term>>)
        /\ last'.op = "handleFacetValueUpdate" => UNCHANGED _recordId
        /\ last'.op = "handleCategoryUpdate" => UNCHANGED _refinements ]_vars

\* C27 witness: a facet update has run after a landing on cat1 and a move
\* to category cat2; the page is 1 and the landing category is still cat1.
C27_Witness ==
    /\ last.op = "handleFacetValueUpdate"
    /\ searchIssued >= 3
    /\ _landingRecordId = "cat1"
    /\ _recordId = "cat2"
    /\ _refinements # <<>>
    /\ _pageNumber = 1

====
